---- MODULE Spec2Model ----
(***************************************************************************)
(* A model of the hostpath CSI driver (pkg/hostpathcsi): the Controller    *)
(* Service (CreateVolume, DeleteVolume) and the Node Service               *)
(* (NodePublishVolume, NodeUnpublishVolume) acting on the host file        *)
(* system.  The driver keeps no state of its own: its whole state is the   *)
(* directories under /tmp/csi/hostpath and the symlinks at the target      *)
(* paths.  Each handler is a sequence of file system calls; Step runs one  *)
(* call of a handler, Run runs a handler to its return.                    *)
(***************************************************************************)
EXTENDS Integers, Sequences, FiniteSets, TLC

VARIABLES
    fs,         \* the host file system: path -> node
    fault,      \* the I/O fault the host currently suffers
    last,       \* the RPC that returned last (NoCall after a step of the environment)
    registry,   \* history: the volumes created and not deleted, with their creation arguments
    trip,       \* history: progress of the publish / write / unpublish / republish round trip
    phase,      \* "serial": RPCs run one at a time; "race": two RPCs run concurrently;
                \* "solo": one RPC runs call by call; "retry": that RPC has been retried
    procs,      \* the two concurrent RPCs of a race: process -> handler frame
    crossed,    \* history: the pairs <<a, b>> of handlers, a having made a file system call
                \* between the first and the last call of b on the same volume id
    entry,      \* history: the file system when the RPC that runs call by call was entered
    context,    \* the context of that RPC: "live" or "canceled"
    deleted,    \* history: the ids whose DeleteVolume returned success and that no
                \* CreateVolume has returned since (kept only where an action says so)
    boot        \* the process: where main stands, the socket, the services registered

vars == <<fs, fault, last, registry, trip, phase, procs, crossed, entry, context, deleted,
         boot>>

----------------------------------------------------------------------------
(* Paths.                                                                  *)

Root == "/tmp/csi/hostpath"

BackingPrefix == "/tmp/csi/hostpath/"

\* NodePublishVolume: sourcePath := "/tmp/csi/hostpath/" + req.VolumeId
SourcePath(id) == BackingPrefix \o id

\* CreateVolume: volumePath := "/tmp/csi/hostpath/" + req.Name
VolumePath(name) == BackingPrefix \o name

\* A DeleteVolume that joins the root and the id without the separator.
DeletedPath_NoSeparator(id) == Root \o id

\* DeleteVolume: volumePath := "/tmp/csi/hostpath/" + req.VolumeId
DeletedPath(id) == BackingPrefix \o id

VolumeIds == {"", "v1", "v2"}

TargetPaths == {"/mnt/a", "/mnt/b"}

DataFile == "/tmp/csi/hostpath/v1/testfile"

Elsewhere == "/var/lib/other"

\* A file someone keeps in a directory of theirs that lies at a target path.
ForeignFile == "/mnt/a/keep"

\* Directories of the host that no modelled call removes.
AlwaysDirs == {"/", "/tmp/csi"}

Paths == {Root, "/tmp/csi/hostpath/v1", "/tmp/csi/hostpath/v2", DataFile,
          "/mnt", "/mnt/a", "/mnt/b", ForeignFile}

BackingPaths == {Root, "/tmp/csi/hostpath/v1", "/tmp/csi/hostpath/v2", DataFile}

\* What the kernel resolves a name to: a trailing separator names the directory.
Clean(path) == IF path = BackingPrefix THEN Root ELSE path

Parent(p) ==
    CASE p = Root -> "/tmp/csi"
      [] p \in {"/tmp/csi/hostpath/v1", "/tmp/csi/hostpath/v2"} -> Root
      [] p = DataFile -> "/tmp/csi/hostpath/v1"
      [] p \in {"/mnt/a", "/mnt/b"} -> "/mnt"
      [] p = ForeignFile -> "/mnt/a"
      [] OTHER -> "/"

\* filepath.Dir of a target path.
Dir(path) == Parent(Clean(path))

RECURSIVE IsUnder(_, _)
IsUnder(q, p) ==
    IF q \in AlwaysDirs \/ q \notin Paths THEN FALSE
    ELSE Parent(q) = p \/ IsUnder(Parent(q), p)

----------------------------------------------------------------------------
(* File system nodes and faults.                                           *)

Absent == [kind |-> "none", dest |-> ""]
DirNode == [kind |-> "dir", dest |-> ""]
FileNode == [kind |-> "file", dest |-> ""]
LinkTo(d) == [kind |-> "link", dest |-> d]

Faults == {"none", "backing_ro", "backing_io", "target_ro", "target_io"}

Domain(p) ==
    IF p \in {"/mnt", "/mnt/a", "/mnt/b", ForeignFile} THEN "target"
    ELSE IF p \in BackingPaths THEN "backing"
    ELSE "host"

\* An I/O error: every call on a path of the domain fails with EIO.
IoErr(flt, p) == flt = Domain(p) \o "_io"

\* A read-only file system: every change of the domain fails with EROFS.
ReadOnly(flt, p) == flt = Domain(p) \o "_ro"

KindOf(f, p) ==
    IF p \in AlwaysDirs THEN "dir"
    ELSE IF p \in DOMAIN f THEN f[p].kind
    ELSE "none"

----------------------------------------------------------------------------
(* The file system calls the handlers make.                                *)

\* os.Lstat: the node at the path itself.
Lstat(f, flt, path) ==
    LET p == Clean(path) IN
    IF IoErr(flt, p) THEN [err |-> "EIO", kind |-> "none"]
    ELSE IF KindOf(f, p) = "none" THEN [err |-> "ENOENT", kind |-> "none"]
    ELSE [err |-> "nil", kind |-> KindOf(f, p)]

\* os.Stat: as Lstat, following a link to its destination.
Stat(f, flt, path) ==
    LET p == Clean(path)
        r == Lstat(f, flt, p)
    IN  IF r.err = "nil" /\ r.kind = "link" THEN Lstat(f, flt, f[p].dest) ELSE r

\* os.IsNotExist
IsNotExist(err) == err = "ENOENT"

\* os.Readlink
Readlink(f, flt, path) ==
    LET p == Clean(path) IN
    IF IoErr(flt, p) THEN [err |-> "EIO", dest |-> ""]
    ELSE IF KindOf(f, p) # "link" THEN [err |-> "EINVAL", dest |-> ""]
    ELSE [err |-> "nil", dest |-> f[p].dest]

\* os.Mkdir
Mkdir(f, flt, path) ==
    LET p == Clean(path) IN
    IF IoErr(flt, p) THEN [fs |-> f, err |-> "EIO"]
    ELSE IF KindOf(f, Parent(p)) # "dir" THEN [fs |-> f, err |-> "ENOENT"]
    ELSE IF KindOf(f, p) # "none" THEN [fs |-> f, err |-> "EEXIST"]
    ELSE IF ReadOnly(flt, p) THEN [fs |-> f, err |-> "EROFS"]
    ELSE [fs |-> [f EXCEPT ![p] = DirNode], err |-> "nil"]

\* os.Symlink(oldname, newname): the link stores oldname as written.
Symlink(f, flt, oldname, newname) ==
    LET p == Clean(newname) IN
    IF IoErr(flt, p) THEN [fs |-> f, err |-> "EIO"]
    ELSE IF KindOf(f, Parent(p)) # "dir" THEN [fs |-> f, err |-> "ENOENT"]
    ELSE IF KindOf(f, p) # "none" THEN [fs |-> f, err |-> "EEXIST"]
    ELSE IF ReadOnly(flt, p) THEN [fs |-> f, err |-> "EROFS"]
    ELSE [fs |-> [f EXCEPT ![p] = LinkTo(oldname)], err |-> "nil"]

\* os.RemoveAll: removes the path and everything under it; a link is removed
\* itself, never followed; a missing path is no error.
RemoveAll(f, flt, path) ==
    LET p == Clean(path) IN
    IF IoErr(flt, p) THEN [fs |-> f, err |-> "EIO"]
    ELSE IF KindOf(f, p) = "none" THEN [fs |-> f, err |-> "nil"]
    ELSE IF ReadOnly(flt, p) THEN [fs |-> f, err |-> "EROFS"]
    ELSE [fs |-> [q \in DOMAIN f |-> IF q = p \/ IsUnder(q, p) THEN Absent ELSE f[q]],
          err |-> "nil"]

----------------------------------------------------------------------------
(* Requests, responses and handler frames.                                 *)

\* The largest byte count a capacity range carries in the model.
MaxBytes == 2

\* A request without a capacity range (req.CapacityRange is nil).
NoRange == [set |-> FALSE, required |-> 0, limit |-> 0]

Ranges ==
    {NoRange} \cup [set : {TRUE}, required : -1 .. MaxBytes, limit : 0 .. MaxBytes]

\* The range and the parameters of the requests that do not vary them.
OneRange == [set |-> TRUE, required |-> 1, limit |-> 0]

NoParams == {}

ParamSets == {NoParams, {<<"type", "fast">>}}

NoRes ==
    [kind |-> "none", err |-> "", id |-> "", cap |-> 0, ctx |-> NoParams,
     caps |-> <<>>, name |-> "", version |-> "", ready |-> "unset"]

\* An empty response (DeleteVolumeResponse{}, NodePublishVolumeResponse{}, ...).
OkRes == [NoRes EXCEPT !.kind = "ok"]

\* return nil, fmt.Errorf(...)
ErrRes(e) == [NoRes EXCEPT !.kind = "err", !.err = e]

\* The handler panicked: neither a response nor an error.
CrashRes == [NoRes EXCEPT !.kind = "crash"]

\* CreateVolumeResponse{Volume{VolumeId, CapacityBytes, VolumeContext}}
VolumeRes(id, cap, ctx) == [OkRes EXCEPT !.id = id, !.cap = cap, !.ctx = ctx]

\* A response that carries a list of capabilities.
CapsRes(caps) == [OkRes EXCEPT !.caps = caps]

Ops == {"CreateVolume", "DeleteVolume", "NodePublishVolume", "NodeUnpublishVolume",
        "NodeStageVolume", "NodeUnstageVolume",
        "ControllerPublishVolume", "ControllerUnpublishVolume", "ControllerGetCapabilities",
        "NodeGetCapabilities", "GetPluginInfo", "GetPluginCapabilities", "Probe"}

\* The frame of a handler that has just been entered.
Frame(op, vol, target, range, params) ==
    [op |-> op, vol |-> vol, target |-> target, range |-> range, params |-> params,
     pc |-> CASE op = "CreateVolume" -> "ma_stat"
              [] op = "DeleteVolume" -> "dv_removeall"
              [] op = "NodePublishVolume" -> "np_stat"
              [] op \in {"NodeStageVolume", "NodeUnstageVolume"} -> "ns_return"
              [] op = "ControllerPublishVolume" -> "cp_return"
              [] op = "ControllerUnpublishVolume" -> "cu_return"
              [] op = "ControllerGetCapabilities" -> "cc_return"
              [] op = "NodeGetCapabilities" -> "nc_return"
              [] op = "GetPluginInfo" -> "gi_return"
              [] op = "GetPluginCapabilities" -> "gc_return"
              [] op = "Probe" -> "pr_return"
              [] OTHER -> "nu_lstat",
     res |-> NoRes,
     muts |-> {},
     cur |-> IF op = "CreateVolume" THEN VolumePath(vol) ELSE "",
     todo |-> <<>>,
     mkerr |-> "nil",
     began |-> FALSE]

Idle == [Frame("none", "", "", NoRange, NoParams) EXCEPT !.pc = "idle"]

Return(l, r) == [l EXCEPT !.pc = "done", !.res = r, !.began = TRUE]

At(l, pc) == [l EXCEPT !.pc = pc, !.began = TRUE]

----------------------------------------------------------------------------
(* os.MkdirAll, one file system call at a time.  cur is the path being     *)
(* examined, todo the directories still to make, outermost first.          *)

\* CreateVolume after os.MkdirAll(volumePath): the error return, or the response.
CreateReturn(l, err) ==
    IF err # "nil" THEN Return(l, ErrRes("create_dir_failed"))
    ELSE IF ~l.range.set THEN Return(l, CrashRes)
    ELSE Return(l, VolumeRes(l.vol, l.range.required, l.params))

\* NodePublishVolume after os.MkdirAll(parentDir).
ParentReturn(l, err) ==
    IF err # "nil" THEN Return(l, ErrRes("create_parent_failed"))
    ELSE At(l, "np_lstat")

MkdirAllReturn(l, err) ==
    IF l.op = "CreateVolume" THEN CreateReturn(l, err) ELSE ParentReturn(l, err)

\* A MkdirAll that behaves as os.Mkdir does: a directory already there is an error.
MkdirAllStat_AsMkdir(f, flt, l) ==
    LET r == Stat(f, flt, l.cur) IN
    IF r.err = "nil" THEN
        IF r.kind # "dir" THEN [fs |-> f, loc |-> MkdirAllReturn(l, "ENOTDIR")]
        ELSE IF l.todo = <<>> THEN [fs |-> f, loc |-> MkdirAllReturn(l, "EEXIST")]
        ELSE [fs |-> f, loc |-> At(l, "ma_mkdir")]
    ELSE
        LET up == Parent(Clean(l.cur))
            l2 == [l EXCEPT !.todo = <<l.cur>> \o l.todo]
        IN  IF up # "/" THEN [fs |-> f, loc |-> At([l2 EXCEPT !.cur = up], "ma_stat")]
            ELSE [fs |-> f, loc |-> At(l2, "ma_mkdir")]

\* dir, err := Stat(path): a directory ends the descent, another node is
\* ENOTDIR, any error turns to the parent.
MkdirAllStat(f, flt, l) ==
    LET r == Stat(f, flt, l.cur) IN
    IF r.err = "nil" THEN
        IF r.kind # "dir" THEN [fs |-> f, loc |-> MkdirAllReturn(l, "ENOTDIR")]
        ELSE IF l.todo = <<>> THEN [fs |-> f, loc |-> MkdirAllReturn(l, "nil")]
        ELSE [fs |-> f, loc |-> At(l, "ma_mkdir")]
    ELSE
        LET up == Parent(Clean(l.cur))
            l2 == [l EXCEPT !.todo = <<l.cur>> \o l.todo]
        IN  IF up # "/" THEN [fs |-> f, loc |-> At([l2 EXCEPT !.cur = up], "ma_stat")]
            ELSE [fs |-> f, loc |-> At(l2, "ma_mkdir")]

\* One directory of todo is made (or found made); the last one ends MkdirAll.
MkdirAllNext(l) ==
    LET rest == Tail(l.todo) IN
    IF rest = <<>> THEN MkdirAllReturn([l EXCEPT !.todo = rest], "nil")
    ELSE At([l EXCEPT !.todo = rest], "ma_mkdir")

\* err = Mkdir(path, perm)
MkdirAllMkdir(f, flt, l) ==
    LET p == Head(l.todo)
        r == Mkdir(f, flt, p)
    IN  IF r.err = "nil"
        THEN [fs |-> r.fs,
              loc |-> MkdirAllNext([l EXCEPT !.muts = @ \cup {<<"mkdir", Clean(p)>>}])]
        ELSE [fs |-> f, loc |-> At([l EXCEPT !.mkerr = r.err], "ma_lstat")]

\* A MkdirAll that returns Mkdir's error without looking at the path again.
MkdirAllLstat_NoRecheck(f, flt, l) == [fs |-> f, loc |-> MkdirAllReturn(l, l.mkerr)]

\* A MkdirAll that answers a failed Mkdir by trying the same Mkdir again when
\* it finds the directory made by someone else.
MkdirAllLstat_Retry(f, flt, l) ==
    LET r == Lstat(f, flt, Head(l.todo)) IN
    IF r.err = "nil" /\ r.kind = "dir" THEN [fs |-> f, loc |-> At(l, "ma_mkdir")]
    ELSE [fs |-> f, loc |-> MkdirAllReturn(l, l.mkerr)]

\* After a failed Mkdir: dir, err1 := Lstat(path); a directory there is success.
MkdirAllLstat(f, flt, l) ==
    LET r == Lstat(f, flt, Head(l.todo)) IN
    IF r.err = "nil" /\ r.kind = "dir" THEN [fs |-> f, loc |-> MkdirAllNext(l)]
    ELSE [fs |-> f, loc |-> MkdirAllReturn(l, l.mkerr)]

----------------------------------------------------------------------------
(* DeleteVolume.                                                           *)

\* The paths a removal took away.
Removed(f, g) == {<<"remove", q>> : q \in {x \in DOMAIN f : f[x].kind # "none" /\ g[x].kind = "none"}}

\* A DeleteVolume that drops the error of os.RemoveAll.
DeleteRemoveAll_IgnoreErr(f, flt, l) ==
    LET r == RemoveAll(f, flt, DeletedPath(l.vol)) IN
    [fs |-> r.fs, loc |-> Return([l EXCEPT !.muts = @ \cup Removed(f, r.fs)], OkRes)]

DeleteRemoveAll(f, flt, l) ==
    LET p == DeletedPath(l.vol)
        r == RemoveAll(f, flt, p)
    IN  IF r.err # "nil" THEN [fs |-> f, loc |-> Return(l, ErrRes("delete_dir_failed"))]
        ELSE [fs |-> r.fs,
              loc |-> Return([l EXCEPT !.muts = @ \cup Removed(f, r.fs)], OkRes)]

----------------------------------------------------------------------------
(* NodePublishVolume.                                                      *)

\* A NodePublishVolume that makes the link before it looks for the source.
PublishStat_LinkFirst(f, flt, l) ==
    LET k == Symlink(f, flt, SourcePath(l.vol), l.target)
        r == Stat(f, flt, SourcePath(l.vol))
    IN  IF IsNotExist(r.err) THEN [fs |-> k.fs, loc |-> Return(l, ErrRes("source_not_exist"))]
        ELSE [fs |-> f, loc |-> At([l EXCEPT !.cur = Dir(l.target), !.todo = <<>>], "ma_stat")]

\* if _, err := os.Stat(sourcePath); os.IsNotExist(err) { return error }
PublishStat(f, flt, l) ==
    LET r == Stat(f, flt, SourcePath(l.vol)) IN
    IF IsNotExist(r.err) THEN [fs |-> f, loc |-> Return(l, ErrRes("source_not_exist"))]
    ELSE [fs |-> f, loc |-> At([l EXCEPT !.cur = Dir(l.target), !.todo = <<>>], "ma_stat")]

\* if fi, err := os.Lstat(targetPath); err == nil { ... }
PublishLstat(f, flt, l) ==
    LET r == Lstat(f, flt, l.target) IN
    IF r.err # "nil" THEN [fs |-> f, loc |-> At(l, "np_symlink")]
    ELSE IF r.kind = "link" THEN [fs |-> f, loc |-> At(l, "np_readlink")]
    ELSE [fs |-> f, loc |-> At(l, "np_removeall")]

\* A NodePublishVolume that keeps every link it finds, wherever it points.
PublishReadlink_AnyLink(f, flt, l) ==
    LET r == Readlink(f, flt, l.target) IN
    IF r.err = "nil" THEN [fs |-> f, loc |-> Return(l, OkRes)]
    ELSE [fs |-> f, loc |-> At(l, "np_removeall")]

\* A NodePublishVolume that replaces every link it finds, the right one too.
PublishReadlink_AlwaysReplace(f, flt, l) == [fs |-> f, loc |-> At(l, "np_removeall")]

\* existingSource, err := os.Readlink(targetPath)
PublishReadlink(f, flt, l) ==
    LET r == Readlink(f, flt, l.target) IN
    IF r.err = "nil" /\ r.dest = SourcePath(l.vol)
    THEN [fs |-> f, loc |-> Return(l, OkRes)]
    ELSE [fs |-> f, loc |-> At(l, "np_removeall")]

\* A NodePublishVolume that clears the directory the target path lies in.
PublishRemoveAll_Parent(f, flt, l) ==
    LET r == RemoveAll(f, flt, Dir(l.target)) IN
    IF r.err # "nil" THEN [fs |-> f, loc |-> Return(l, ErrRes("remove_target_failed"))]
    ELSE [fs |-> r.fs,
          loc |-> At([l EXCEPT !.muts = @ \cup Removed(f, r.fs)], "np_symlink")]

\* A removal that follows a link at the target path: what the link points at
\* goes too.
PublishRemoveAll_Follow(f, flt, l) ==
    LET t == Clean(l.target)
        d == IF f[t].kind = "link" THEN RemoveAll(f, flt, f[t].dest).fs ELSE f
        r == RemoveAll(d, flt, l.target)
    IN  IF r.err # "nil" THEN [fs |-> f, loc |-> Return(l, ErrRes("remove_target_failed"))]
        ELSE [fs |-> r.fs,
              loc |-> At([l EXCEPT !.muts = @ \cup Removed(f, r.fs)], "np_symlink")]

\* os.RemoveAll(targetPath)
PublishRemoveAll(f, flt, l) ==
    LET r == RemoveAll(f, flt, l.target) IN
    IF r.err # "nil" THEN [fs |-> f, loc |-> Return(l, ErrRes("remove_target_failed"))]
    ELSE [fs |-> r.fs,
          loc |-> At([l EXCEPT !.muts = @ \cup Removed(f, r.fs)], "np_symlink")]

\* os.Symlink(sourcePath, targetPath)
PublishSymlink(f, flt, l) ==
    LET r == Symlink(f, flt, SourcePath(l.vol), l.target) IN
    IF r.err # "nil" THEN [fs |-> f, loc |-> Return(l, ErrRes("symlink_failed"))]
    ELSE [fs |-> r.fs,
          loc |-> Return([l EXCEPT !.muts = @ \cup {<<"symlink", Clean(l.target)>>}], OkRes)]

----------------------------------------------------------------------------
(* NodeUnpublishVolume.                                                    *)

\* A NodeUnpublishVolume that removes whatever it finds at the target path.
UnpublishLstat_RemoveAny(f, flt, l) ==
    LET r == Lstat(f, flt, l.target) IN
    IF r.err = "nil" THEN [fs |-> f, loc |-> At(l, "nu_removeall")]
    ELSE IF IsNotExist(r.err) THEN [fs |-> f, loc |-> Return(l, OkRes)]
    ELSE [fs |-> f, loc |-> Return(l, ErrRes("check_target_failed"))]

\* A NodeUnpublishVolume that reports every Lstat error, a missing target too.
UnpublishLstat_Strict(f, flt, l) ==
    LET r == Lstat(f, flt, l.target) IN
    IF r.err = "nil" THEN
        IF r.kind = "link" THEN [fs |-> f, loc |-> At(l, "nu_removeall")]
        ELSE [fs |-> f, loc |-> Return(l, OkRes)]
    ELSE [fs |-> f, loc |-> Return(l, ErrRes("check_target_failed"))]

UnpublishLstat(f, flt, l) ==
    LET r == Lstat(f, flt, l.target) IN
    IF r.err = "nil" THEN
        IF r.kind = "link" THEN [fs |-> f, loc |-> At(l, "nu_removeall")]
        ELSE [fs |-> f, loc |-> Return(l, OkRes)]
    ELSE IF IsNotExist(r.err) THEN [fs |-> f, loc |-> Return(l, OkRes)]
    ELSE [fs |-> f, loc |-> Return(l, ErrRes("check_target_failed"))]

\* A NodeUnpublishVolume that reports success and leaves the link in place.
UnpublishRemoveAll_Forget(f, flt, l) == [fs |-> f, loc |-> Return(l, OkRes)]

\* A NodeUnpublishVolume that clears the directory the target path lies in.
UnpublishRemoveAll_Parent(f, flt, l) ==
    LET r == RemoveAll(f, flt, Dir(l.target)) IN
    IF r.err # "nil" THEN [fs |-> f, loc |-> Return(l, ErrRes("remove_symlink_failed"))]
    ELSE [fs |-> r.fs,
          loc |-> Return([l EXCEPT !.muts = @ \cup Removed(f, r.fs)], OkRes)]

\* A NodeUnpublishVolume that removes what the link points at, then the link.
UnpublishRemoveAll_Follow(f, flt, l) ==
    LET d == RemoveAll(f, flt, f[Clean(l.target)].dest)
        r == RemoveAll(d.fs, flt, l.target)
    IN  IF r.err # "nil" THEN [fs |-> f, loc |-> Return(l, ErrRes("remove_symlink_failed"))]
        ELSE [fs |-> r.fs, loc |-> Return([l EXCEPT !.muts = @ \cup Removed(f, r.fs)], OkRes)]

UnpublishRemoveAll(f, flt, l) ==
    LET r == RemoveAll(f, flt, l.target) IN
    IF r.err # "nil" THEN [fs |-> f, loc |-> Return(l, ErrRes("remove_symlink_failed"))]
    ELSE [fs |-> r.fs,
          loc |-> Return([l EXCEPT !.muts = @ \cup Removed(f, r.fs)], OkRes)]

----------------------------------------------------------------------------
(* NodeStageVolume and NodeUnstageVolume.                                  *)

\* A NodeStageVolume that makes the staging directory when it is missing.
StageReturn_MakeDir(f, flt, l) ==
    LET t == Clean(l.target) IN
    IF KindOf(f, t) = "none"
    THEN [fs |-> [f EXCEPT ![Parent(t)] = DirNode, ![t] = DirNode],
          loc |-> Return([l EXCEPT !.muts = @ \cup {<<"mkdir", t>>}], OkRes)]
    ELSE [fs |-> f, loc |-> Return(l, OkRes)]

\* return &csi.NodeStageVolumeResponse{}, nil (and the same for unstage)
StageReturn(f, flt, l) == [fs |-> f, loc |-> Return(l, OkRes)]

----------------------------------------------------------------------------
(* The handlers that answer without a file system call.                    *)

\* A ControllerPublishVolume that is an empty success, like NodeStageVolume.
ControllerPublishReturn_NoOp(f, flt, l) == [fs |-> f, loc |-> Return(l, OkRes)]

\* return nil, fmt.Errorf("ControllerPublishVolume is not supported")
ControllerPublishReturn(f, flt, l) == [fs |-> f, loc |-> Return(l, ErrRes("not_supported"))]

\* return nil, fmt.Errorf("ControllerUnpublishVolume is not supported")
ControllerUnpublishReturn(f, flt, l) == [fs |-> f, loc |-> Return(l, ErrRes("not_supported"))]

ControllerCapabilitiesReturn(f, flt, l) ==
    [fs |-> f, loc |-> Return(l, CapsRes(<<"CREATE_DELETE_VOLUME">>))]

\* A NodeGetCapabilities that advertises the staging capability.
NodeCapabilitiesReturn_Staging(f, flt, l) ==
    [fs |-> f, loc |-> Return(l, CapsRes(<<"STAGE_UNSTAGE_VOLUME">>))]

\* One entry, of RPC type UNKNOWN.
NodeCapabilitiesReturn(f, flt, l) == [fs |-> f, loc |-> Return(l, CapsRes(<<"UNKNOWN">>))]

PluginInfoReturn(f, flt, l) ==
    [fs |-> f,
     loc |-> Return(l, [OkRes EXCEPT !.name = "hostpath.csi.k8s.io", !.version = "v1.0.0"])]

PluginCapabilitiesReturn(f, flt, l) ==
    [fs |-> f, loc |-> Return(l, CapsRes(<<"CONTROLLER_SERVICE">>))]

\* A Probe that looks at the backing root and fails when it cannot be read.
ProbeReturn_CheckRoot(f, flt, l) ==
    IF Stat(f, flt, Root).err # "nil" THEN [fs |-> f, loc |-> Return(l, ErrRes("not_ready"))]
    ELSE [fs |-> f, loc |-> Return(l, OkRes)]

\* return &csi.ProbeResponse{}, nil: the Ready field is left unset.
ProbeReturn(f, flt, l) == [fs |-> f, loc |-> Return(l, OkRes)]

----------------------------------------------------------------------------
(* One file system call of a handler, and a handler run to its return.     *)

Step(f, flt, l) ==
    CASE l.pc = "ma_stat" -> MkdirAllStat(f, flt, l)
      [] l.pc = "ma_mkdir" -> MkdirAllMkdir(f, flt, l)
      [] l.pc = "ma_lstat" -> MkdirAllLstat(f, flt, l)
      [] l.pc = "dv_removeall" -> DeleteRemoveAll(f, flt, l)
      [] l.pc = "np_stat" -> PublishStat(f, flt, l)
      [] l.pc = "np_lstat" -> PublishLstat(f, flt, l)
      [] l.pc = "np_readlink" -> PublishReadlink(f, flt, l)
      [] l.pc = "np_removeall" -> PublishRemoveAll(f, flt, l)
      [] l.pc = "np_symlink" -> PublishSymlink(f, flt, l)
      [] l.pc = "nu_lstat" -> UnpublishLstat(f, flt, l)
      [] l.pc = "nu_removeall" -> UnpublishRemoveAll(f, flt, l)
      [] l.pc = "ns_return" -> StageReturn(f, flt, l)
      [] l.pc = "cp_return" -> ControllerPublishReturn(f, flt, l)
      [] l.pc = "cu_return" -> ControllerUnpublishReturn(f, flt, l)
      [] l.pc = "cc_return" -> ControllerCapabilitiesReturn(f, flt, l)
      [] l.pc = "nc_return" -> NodeCapabilitiesReturn(f, flt, l)
      [] l.pc = "gi_return" -> PluginInfoReturn(f, flt, l)
      [] l.pc = "gc_return" -> PluginCapabilitiesReturn(f, flt, l)
      [] l.pc = "pr_return" -> ProbeReturn(f, flt, l)
      [] OTHER -> [fs |-> f, loc |-> l]

RECURSIVE Run(_, _, _)
Run(f, flt, l) ==
    IF l.pc = "done" THEN [fs |-> f, loc |-> l]
    ELSE LET s == Step(f, flt, l) IN Run(s.fs, flt, s.loc)

----------------------------------------------------------------------------
(* main: from process start to the serving of RPCs.  A failed step ends    *)
(* the process (log.Fatalf); ok is what the host lets the step do.         *)

Services == {"Identity", "Controller", "Node"}

\* The process at its start; the socket file of an earlier run may be there.
Starting(sock) ==
    [pc |-> "remove", socket |-> sock, registered |-> {}, cause |-> "", found |-> sock]

\* The process once main has reached server.Serve; found is the socket file
\* as the process found it.
Booted ==
    [pc |-> "serving", socket |-> "bound", registered |-> Services, cause |-> "",
     found |-> "absent"]

\* log.Fatalf
Fatal(b, why) == [b EXCEPT !.pc = "exited", !.cause = why]

\* A start that goes on to bind when the socket file could not be removed.
MainRemoveAll_IgnoreErr(b, ok) ==
    IF ok THEN [b EXCEPT !.socket = "absent", !.pc = "listen"]
    ELSE [b EXCEPT !.pc = "listen"]

\* if err := os.RemoveAll(socket); err != nil { log.Fatalf(...) }
MainRemoveAll(b, ok) ==
    IF ok THEN [b EXCEPT !.socket = "absent", !.pc = "listen"]
    ELSE Fatal(b, "remove")

\* listener, err := net.Listen("unix", socket): a socket file already there
\* is EADDRINUSE.
MainListen(b, ok) ==
    IF b.socket # "absent" \/ ~ok THEN Fatal(b, "listen")
    ELSE [b EXCEPT !.socket = "bound", !.pc = "new"]

\* server := grpc.NewServer()
MainNewServer(b, ok) == [b EXCEPT !.registered = {}, !.pc = "reg_identity"]

\* csi.RegisterIdentityServer, csi.RegisterControllerServer, csi.RegisterNodeServer
MainRegister(b, ok) ==
    CASE b.pc = "reg_identity" ->
            [b EXCEPT !.registered = @ \cup {"Identity"}, !.pc = "reg_controller"]
      [] b.pc = "reg_controller" ->
            [b EXCEPT !.registered = @ \cup {"Controller"}, !.pc = "reg_node"]
      [] OTHER ->
            [b EXCEPT !.registered = @ \cup {"Node"}, !.pc = "serve"]

\* server.Serve(listener): the server accepts RPCs, unless the listener
\* fails at once.
MainServe(b, ok) == IF ok THEN [b EXCEPT !.pc = "serving"] ELSE Fatal(b, "serve")

\* The next statement of main.
MainNext(b, ok) ==
    CASE b.pc = "remove" -> MainRemoveAll(b, ok)
      [] b.pc = "listen" -> MainListen(b, ok)
      [] b.pc = "new" -> MainNewServer(b, ok)
      [] b.pc \in {"reg_identity", "reg_controller", "reg_node"} -> MainRegister(b, ok)
      [] b.pc = "serve" -> MainServe(b, ok)
      [] OTHER -> b

----------------------------------------------------------------------------
(* The state machine.                                                      *)

NoCall ==
    [op |-> "none", vol |-> "", target |-> "", range |-> NoRange, params |-> NoParams,
     fault |-> "none", res |-> NoRes, muts |-> {}, again |-> FALSE, before |-> NoRes]

\* The record of a returned call: its request, the fault it ran under, its
\* result, the changes it made, and, when the call before it was the same
\* request, that call's result.
CallRecord(l, flt, prev) ==
    LET same == /\ prev.op = l.op /\ prev.vol = l.vol /\ prev.target = l.target
                /\ prev.range = l.range /\ prev.params = l.params
    IN  [op |-> l.op, vol |-> l.vol, target |-> l.target, range |-> l.range,
         params |-> l.params, fault |-> flt, res |-> l.res, muts |-> l.muts,
         again |-> same, before |-> IF same THEN prev.res ELSE NoRes]

NoEntry == [present |-> FALSE, range |-> NoRange, params |-> NoParams]

\* The volumes a caller holds: entered by the CreateVolume that returned the
\* volume first, dropped by a DeleteVolume that returned success.
Registered(reg, l) ==
    IF l.op = "CreateVolume" /\ l.res.kind = "ok" /\ ~reg[l.vol].present
    THEN [reg EXCEPT ![l.vol] = [present |-> TRUE, range |-> l.range, params |-> l.params]]
    ELSE IF l.op = "DeleteVolume" /\ l.res.kind = "ok"
    THEN [reg EXCEPT ![l.vol] = NoEntry]
    ELSE reg

TripVolume == "v1"

TripTarget == "/mnt/a"

\* The round trip of the README: 1 after the test file is written through the
\* target, 2 after the target is then unpublished, 3 after it is published
\* again; a DeleteVolume of the volume (or of the whole root) starts it over.
TripAfter(t, l) ==
    IF l.res.kind # "ok" THEN t
    ELSE IF l.op = "DeleteVolume" /\ l.vol \in {TripVolume, ""} THEN 0
    ELSE IF l.op = "NodeUnpublishVolume" /\ l.target = TripTarget /\ t \in {1, 3} THEN 2
    ELSE IF l.op = "NodePublishVolume" /\ l.target = TripTarget /\ l.vol = TripVolume /\ t = 2
    THEN 3
    ELSE t

Init ==
    /\ fs = [p \in Paths |-> Absent]
    /\ fault = "none"
    /\ last = NoCall
    /\ registry = [v \in VolumeIds |-> NoEntry]
    /\ trip = 0
    /\ phase = "serial"
    /\ procs = [i \in {1, 2} |-> Idle]
    /\ crossed = {}
    /\ entry = fs
    /\ context = "live"
    /\ deleted = {}
    /\ boot = Booted

\* An RPC served alone: the handler runs from entry to return.
ServeCall(l0) ==
    /\ phase = "serial"
    /\ LET s == Run(fs, fault, l0) IN
        /\ fs' = s.fs
        /\ last' = CallRecord(s.loc, fault, last)
        /\ registry' = Registered(registry, s.loc)
        /\ trip' = TripAfter(trip, s.loc)
    /\ UNCHANGED <<boot, fault, phase, procs, crossed, entry, context>>

Serve(l0) == ServeCall(l0) /\ UNCHANGED deleted

CreateVolume(name, range, params) == Serve(Frame("CreateVolume", name, "", range, params))

DeleteVolume(id) == Serve(Frame("DeleteVolume", id, "", NoRange, NoParams))

NodePublishVolume(id, target) ==
    Serve(Frame("NodePublishVolume", id, target, NoRange, NoParams))

NodeUnpublishVolume(id, target) ==
    Serve(Frame("NodeUnpublishVolume", id, target, NoRange, NoParams))

NodeStageVolume(id, staging) ==
    Serve(Frame("NodeStageVolume", id, staging, NoRange, NoParams))

NodeUnstageVolume(id, staging) ==
    Serve(Frame("NodeUnstageVolume", id, staging, NoRange, NoParams))

\* The host starts or stops suffering a fault.
SetFault(f) ==
    /\ phase = "serial"
    /\ f # fault
    /\ fault' = f
    /\ last' = NoCall
    /\ UNCHANGED <<boot, fs, registry, trip, phase, procs, crossed, entry, context, deleted>>

\* The workload writes the test file into the volume through its target path.
WriteFile(t) ==
    /\ phase = "serial"
    /\ fault = "none"
    /\ fs[t].kind = "link"
    /\ Clean(fs[t].dest) = Parent(DataFile)
    /\ fs[Parent(DataFile)].kind = "dir"
    /\ fs[DataFile].kind = "none"
    /\ fs' = [fs EXCEPT ![DataFile] = FileNode]
    /\ trip' = IF t = TripTarget /\ trip = 0 THEN 1 ELSE trip
    /\ last' = NoCall
    /\ UNCHANGED <<boot, fault, registry, phase, procs, crossed, entry, context, deleted>>

ForeignNodes == {FileNode, DirNode, LinkTo(Elsewhere)}

\* Someone other than the driver puts a file, a directory or a link at a
\* free target path.
PlaceForeign(t, node) ==
    /\ phase = "serial"
    /\ fs[t].kind = "none"
    /\ fs' = [fs EXCEPT ![Parent(t)] = DirNode, ![t] = node]
    /\ last' = NoCall
    /\ UNCHANGED <<boot, fault, registry, trip, phase, procs, crossed, entry, context, deleted>>

\* The ids and the staging paths of the stage and unstage requests.
StagedIds == {"v1"}

StagingPaths == {"/mnt/a"}

\* The owner of a directory at a target path puts a file into it.
FillForeign ==
    /\ phase = "serial"
    /\ fs[Parent(ForeignFile)].kind = "dir"
    /\ fs[ForeignFile].kind = "none"
    /\ fs' = [fs EXCEPT ![ForeignFile] = FileNode]
    /\ last' = NoCall
    /\ UNCHANGED <<boot, fault, registry, trip, phase, procs, crossed, entry, context, deleted>>

Next ==
    \/ \E v \in VolumeIds : CreateVolume(v, OneRange, NoParams)
    \/ \E v \in VolumeIds : DeleteVolume(v)
    \/ \E v \in VolumeIds, t \in TargetPaths : NodePublishVolume(v, t)
    \/ \E v \in VolumeIds, t \in TargetPaths : NodeUnpublishVolume(v, t)
    \/ \E v \in StagedIds, t \in StagingPaths : NodeStageVolume(v, t)
    \/ \E v \in StagedIds, t \in StagingPaths : NodeUnstageVolume(v, t)
    \/ \E t \in TargetPaths : WriteFile(t)
    \/ \E t \in TargetPaths, n \in ForeignNodes : PlaceForeign(t, n)
    \/ FillForeign

\* RPCs served one at a time on a host without faults.
Spec == Init /\ [][Next]_vars

----------------------------------------------------------------------------
(* RPCs served one at a time on a host whose file systems may fail.        *)

FaultIds == {"", "v1"}

FaultTargets == {"/mnt/a"}

FaultNext ==
    \/ \E v \in FaultIds : CreateVolume(v, OneRange, NoParams)
    \/ \E v \in FaultIds : DeleteVolume(v)
    \/ \E v \in FaultIds, t \in FaultTargets : NodePublishVolume(v, t)
    \/ \E v \in FaultIds, t \in FaultTargets : NodeUnpublishVolume(v, t)
    \/ \E f \in Faults : SetFault(f)
    \/ \E t \in FaultTargets : WriteFile(t)
    \/ \E t \in FaultTargets, n \in ForeignNodes : PlaceForeign(t, n)

FaultSpec == Init /\ [][FaultNext]_vars

----------------------------------------------------------------------------
(* The Controller Service alone, over every capacity range and parameter   *)
(* set of the model.                                                       *)

ProvisionNames == {"v1"}

ProvisionNext ==
    \/ \E v \in ProvisionNames, r \in Ranges, p \in ParamSets : CreateVolume(v, r, p)
    \/ \E v \in FaultIds : DeleteVolume(v)

ProvisionSpec == Init /\ [][ProvisionNext]_vars

----------------------------------------------------------------------------
(* Two RPCs served concurrently: after any serial history the transport    *)
(* dispatches two requests at once, and their file system calls interleave.*)

RaceIds == {"v1", "v2"}

RaceTargets == {"/mnt/a"}

\* The capacity ranges of the CreateVolume requests of a race.
RaceRanges == {OneRange, [OneRange EXCEPT !.required = 2]}

RaceFrames ==
    {Frame("CreateVolume", v, "", r, NoParams) : v \in RaceIds, r \in RaceRanges}
    \cup {Frame("DeleteVolume", v, "", NoRange, NoParams) : v \in RaceIds}
    \cup {Frame("NodePublishVolume", v, t, NoRange, NoParams) : v \in RaceIds, t \in RaceTargets}
    \cup {Frame("NodeUnpublishVolume", v, t, NoRange, NoParams) : v \in RaceIds, t \in RaceTargets}

\* Two requests arrive together.
StartRace(l1, l2) ==
    /\ phase = "serial"
    /\ phase' = "race"
    /\ procs' = [i \in {1, 2} |-> IF i = 1 THEN l1 ELSE l2]
    /\ last' = NoCall
    /\ UNCHANGED <<boot, fs, fault, registry, trip, crossed, entry, context, deleted>>

\* A server with one lock for all volumes: a handler that has begun keeps the
\* other one out until it returns.
RaceStep_GlobalLock(i) ==
    LET j == 3 - i
        s == Step(fs, fault, procs[i])
    IN  /\ phase = "race"
        /\ procs[i].pc # "done"
        /\ ~(procs[j].began /\ procs[j].pc # "done")
        /\ fs' = s.fs
        /\ procs' = [procs EXCEPT ![i] = s.loc]
        /\ UNCHANGED <<boot, fault, last, registry, trip, phase, crossed, entry, context, deleted>>

\* One file system call of one of the two handlers.  crossed records that the
\* call fell between the first and the last call of the other handler while
\* both work on the same volume id.
RaceStep(i) ==
    LET j == 3 - i
        s == Step(fs, fault, procs[i])
    IN  /\ phase = "race"
        /\ procs[i].pc # "done"
        /\ fs' = s.fs
        /\ procs' = [procs EXCEPT ![i] = s.loc]
        /\ crossed' = IF /\ procs[j].began /\ procs[j].pc # "done"
                          /\ procs[j].vol = procs[i].vol
                       THEN crossed \cup {<<procs[i].op, procs[j].op>>}
                       ELSE crossed
        /\ UNCHANGED <<boot, fault, last, registry, trip, phase, entry, context, deleted>>

RaceNext ==
    \/ \E v \in RaceIds : CreateVolume(v, OneRange, NoParams)
    \/ \E v \in RaceIds : DeleteVolume(v)
    \/ \E v \in RaceIds, t \in RaceTargets : NodePublishVolume(v, t)
    \/ \E v \in RaceIds, t \in RaceTargets : NodeUnpublishVolume(v, t)
    \/ \E t \in RaceTargets, n \in ForeignNodes : PlaceForeign(t, n)
    \/ \E l1 \in RaceFrames, l2 \in RaceFrames : StartRace(l1, l2)
    \/ \E i \in {1, 2} : RaceStep(i)

RaceSpec == Init /\ [][RaceNext]_vars

----------------------------------------------------------------------------
(* One RPC followed call by call on a host whose faults come and go while  *)
(* the handler runs, and the caller's retry of it once the host is sound.  *)

Contexts == {"live", "canceled"}

SoloFrames ==
    {Frame("CreateVolume", v, "", OneRange, NoParams) : v \in FaultIds}
    \cup {Frame("DeleteVolume", v, "", NoRange, NoParams) : v \in FaultIds}
    \cup {Frame("NodePublishVolume", v, t, NoRange, NoParams) : v \in FaultIds, t \in FaultTargets}
    \cup {Frame("NodeUnpublishVolume", v, t, NoRange, NoParams) : v \in FaultIds, t \in FaultTargets}

\* A request arrives; its context is live, or the caller has canceled it
\* before the handler makes its first call.
StartSolo(l, c) ==
    /\ phase = "serial"
    /\ phase' = "solo"
    /\ procs' = [i \in {1, 2} |-> IF i = 1 THEN l ELSE Idle]
    /\ entry' = fs
    /\ context' = c
    /\ last' = NoCall
    /\ UNCHANGED <<boot, fs, fault, registry, trip, crossed, deleted>>

\* A fault starts or stops between two file system calls of the handler.
SoloFault(f) ==
    /\ phase = "solo"
    /\ procs[1].pc # "done"
    /\ f # fault
    /\ fault' = f
    /\ UNCHANGED <<boot, fs, last, registry, trip, phase, procs, crossed, entry, context, deleted>>

\* The next file system call of the handler.  No handler reads its context.
SoloStep ==
    LET s == Step(fs, fault, procs[1]) IN
    /\ phase = "solo"
    /\ procs[1].pc # "done"
    /\ fs' = s.fs
    /\ procs' = [procs EXCEPT ![1] = s.loc]
    /\ registry' = IF s.loc.pc = "done" THEN Registered(registry, s.loc) ELSE registry
    /\ UNCHANGED <<boot, fault, last, trip, phase, crossed, entry, context, deleted>>

\* The call has returned an error; the host is sound again and the caller
\* sends the same request once more.
Retry ==
    LET l == procs[1]
        s == Run(fs, "none", Frame(l.op, l.vol, l.target, l.range, l.params))
    IN  /\ phase = "solo"
        /\ l.pc = "done"
        /\ l.res.kind = "err"
        /\ phase' = "retry"
        /\ fault' = "none"
        /\ fs' = s.fs
        /\ last' = CallRecord(s.loc, "none", NoCall)
        /\ registry' = Registered(registry, s.loc)
        /\ UNCHANGED <<boot, trip, procs, crossed, entry, context, deleted>>

SoloNext ==
    \/ \E v \in FaultIds : CreateVolume(v, OneRange, NoParams)
    \/ \E v \in FaultIds : DeleteVolume(v)
    \/ \E v \in FaultIds, t \in FaultTargets : NodePublishVolume(v, t)
    \/ \E v \in FaultIds, t \in FaultTargets : NodeUnpublishVolume(v, t)
    \/ \E t \in FaultTargets, n \in ForeignNodes : PlaceForeign(t, n)
    \/ FillForeign
    \/ \E l \in SoloFrames, c \in Contexts : StartSolo(l, c)
    \/ \E f \in Faults : SoloFault(f)
    \/ SoloStep
    \/ Retry

SoloSpec == Init /\ [][SoloNext]_vars

----------------------------------------------------------------------------
(* The RPCs that answer without a file system call, served in any state:   *)
(* between other RPCs, while the host suffers a fault, and while another   *)
(* RPC is between two of its file system calls.                            *)

\* An RPC whose handler returns without a file system call.
Answer(l0) ==
    LET s == Run(fs, fault, l0) IN
    /\ fs' = s.fs
    /\ last' = CallRecord(s.loc, fault, last)
    /\ registry' = Registered(registry, s.loc)
    /\ UNCHANGED <<boot, fault, trip, phase, procs, crossed, entry, context, deleted>>

ControllerPublishVolume(id) ==
    Answer(Frame("ControllerPublishVolume", id, "", NoRange, NoParams))

ControllerUnpublishVolume(id) ==
    Answer(Frame("ControllerUnpublishVolume", id, "", NoRange, NoParams))

ControllerGetCapabilities == Answer(Frame("ControllerGetCapabilities", "", "", NoRange, NoParams))

NodeGetCapabilities == Answer(Frame("NodeGetCapabilities", "", "", NoRange, NoParams))

GetPluginInfo == Answer(Frame("GetPluginInfo", "", "", NoRange, NoParams))

GetPluginCapabilities == Answer(Frame("GetPluginCapabilities", "", "", NoRange, NoParams))

Probe == Answer(Frame("Probe", "", "", NoRange, NoParams))

\* The volume of the RPCs that the answering RPCs are served among.
ServiceIds == {"v1"}

ServiceFrames ==
    {Frame("CreateVolume", v, "", OneRange, NoParams) : v \in ServiceIds}
    \cup {Frame("DeleteVolume", v, "", NoRange, NoParams) : v \in ServiceIds}
    \cup {Frame("NodePublishVolume", v, t, NoRange, NoParams) : v \in ServiceIds, t \in FaultTargets}
    \cup {Frame("NodeUnpublishVolume", v, t, NoRange, NoParams) : v \in ServiceIds, t \in FaultTargets}

ServiceNext ==
    \/ \E v \in ServiceIds : CreateVolume(v, OneRange, NoParams)
    \/ \E v \in ServiceIds : DeleteVolume(v)
    \/ \E v \in ServiceIds, t \in FaultTargets : NodePublishVolume(v, t)
    \/ \E v \in ServiceIds, t \in FaultTargets : NodeUnpublishVolume(v, t)
    \/ \E f \in Faults : SetFault(f)
    \/ \E l \in ServiceFrames : StartSolo(l, "live")
    \/ \E f \in Faults : SoloFault(f)
    \/ SoloStep
    \/ \E v \in FaultIds : ControllerPublishVolume(v)
    \/ \E v \in FaultIds : ControllerUnpublishVolume(v)
    \/ ControllerGetCapabilities
    \/ NodeGetCapabilities
    \/ GetPluginInfo
    \/ GetPluginCapabilities
    \/ Probe
    \/ \E v \in StagedIds, t \in StagingPaths :
          Answer(Frame("NodeStageVolume", v, t, NoRange, NoParams))
    \/ \E v \in StagedIds, t \in StagingPaths :
          Answer(Frame("NodeUnstageVolume", v, t, NoRange, NoParams))

ServiceSpec == Init /\ [][ServiceNext]_vars

----------------------------------------------------------------------------
(* The life of a volume: created with any required size and parameters,    *)
(* published, unpublished and deleted, with the record of which ids have   *)
(* been deleted and not created again.                                     *)

\* The ids deleted and not created since, after a call has returned.
Gone(d, l) ==
    IF l.op = "DeleteVolume" /\ l.res.kind = "ok" THEN d \cup {l.vol}
    ELSE IF l.op = "CreateVolume" /\ l.res.kind = "ok" THEN d \ {l.vol}
    ELSE d

\* An RPC served alone, and the record of the deleted ids brought up to date.
Lived(l0) ==
    /\ ServeCall(l0)
    /\ deleted' = Gone(deleted, Run(fs, fault, l0).loc)

\* The capacity ranges without a limit.
LifeRanges == {r \in Ranges : r.set /\ r.limit = 0}

LifeNext ==
    \/ \E v \in FaultIds, r \in LifeRanges, p \in ParamSets :
          Lived(Frame("CreateVolume", v, "", r, p))
    \/ \E v \in FaultIds : Lived(Frame("DeleteVolume", v, "", NoRange, NoParams))
    \/ \E v \in FaultIds, t \in FaultTargets :
          Lived(Frame("NodePublishVolume", v, t, NoRange, NoParams))
    \/ \E v \in FaultIds, t \in FaultTargets :
          Lived(Frame("NodeUnpublishVolume", v, t, NoRange, NoParams))

LifeSpec == Init /\ [][LifeNext]_vars


----------------------------------------------------------------------------
(* The claims.                                                             *)

BackingPath(id) == Clean(SourcePath(id))

IsCall(c, op) == c.op = op

SameArgs(a, b) ==
    /\ a.op = b.op /\ a.vol = b.vol /\ a.target = b.target
    /\ a.range = b.range /\ a.params = b.params

\* C1: a CreateVolume that repeats the request of the successful CreateVolume
\* just before it succeeds too, returns the same volume id and the same
\* capacity, makes no further directory, and the one backing directory of the
\* name is there.
C1_IdempotentCreate ==
    (IsCall(last, "CreateVolume") /\ last.again /\ last.before.kind = "ok")
        => /\ last.res.kind = "ok"
           /\ last.res.id = last.before.id
           /\ last.res.cap = last.before.cap
           /\ last.muts = {}
           /\ fs[BackingPath(last.vol)] = DirNode

C1_Witness ==
    /\ IsCall(last, "CreateVolume") /\ last.again /\ last.before.kind = "ok"
    /\ last.res.kind = "ok" /\ last.res.cap = 2 /\ last.params # NoParams

\* C2: a CreateVolume whose name belongs to a registered volume created with
\* another capacity range or other parameters fails.
C2_ConflictRejected ==
    (/\ IsCall(last, "CreateVolume") /\ last.range.set
     /\ registry[last.vol].present
     /\ (registry[last.vol].range # last.range \/ registry[last.vol].params # last.params))
        => last.res.kind = "err"

Done(i) == procs[i].pc = "done"

\* C3: when two concurrent CreateVolume calls with the same name, capacity
\* range and parameters have both returned, both have succeeded with the same
\* volume id and the backing directory of the name is there.
C3_ConcurrentCreate ==
    (/\ phase = "race" /\ Done(1) /\ Done(2)
     /\ IsCall(procs[1], "CreateVolume") /\ SameArgs(procs[1], procs[2]))
        => /\ procs[1].res.kind = "ok" /\ procs[2].res.kind = "ok"
           /\ procs[1].res.id = procs[2].res.id
           /\ fs[BackingPath(procs[1].vol)] = DirNode

C3_Witness ==
    /\ phase = "race" /\ Done(1) /\ Done(2)
    /\ IsCall(procs[1], "CreateVolume") /\ SameArgs(procs[1], procs[2])
    /\ crossed # {}
    /\ procs[1].muts # {} /\ procs[2].muts # {}
    /\ procs[1].res.kind = "ok" /\ procs[2].res.kind = "ok"

\* C4: no file system call of a handler falls between the first and the last
\* file system call of another handler working on the same volume id; in
\* particular DeleteVolume does not remove the backing path while a
\* NodePublishVolume or a CreateVolume on that id is in progress.
C4_Serialized ==
    /\ <<"DeleteVolume", "NodePublishVolume">> \notin crossed
    /\ <<"DeleteVolume", "CreateVolume">> \notin crossed
    /\ (Done(1) /\ Done(2)) => crossed = {}

\* C5: a DeleteVolume of a volume id that is not registered (never created, or
\* deleted already) returns success and changes nothing in the file system.
C5_DeleteAbsent ==
    [][(IsCall(last', "DeleteVolume") /\ ~registry[last'.vol].present)
        => (last'.res.kind = "ok" /\ fs' = fs)]_vars

\* C6: a NodePublishVolume of a volume whose backing directory exists succeeds
\* and leaves the target a link to the backing path; one that repeats the
\* successful NodePublishVolume just before it succeeds without removing or
\* creating anything and leaves the file system as it found it.
C6_PublishTwice ==
    /\ [](IsCall(last, "NodePublishVolume")
            => /\ fs[BackingPath(last.vol)].kind = "dir"
                    => (last.res.kind = "ok" /\ fs[last.target] = LinkTo(SourcePath(last.vol)))
               /\ (last.again /\ last.before.kind = "ok")
                    => (/\ last.res.kind = "ok" /\ last.muts = {}
                        /\ fs[last.target] = LinkTo(SourcePath(last.vol))))
    /\ [][(IsCall(last', "NodePublishVolume") /\ last'.again /\ last'.before.kind = "ok")
            => fs' = fs]_vars

C6_Witness ==
    /\ IsCall(last, "NodePublishVolume") /\ last.again /\ last.before.kind = "ok"
    /\ last.res.kind = "ok" /\ last.vol = "v1"
    /\ fs[last.target] = LinkTo(SourcePath("v1"))

\* C7: a NodeUnpublishVolume of a target path at which nothing exists returns
\* success and leaves the file system as it found it, for every id and target.
C7_UnpublishAbsent ==
    [][(IsCall(last', "NodeUnpublishVolume") /\ fs[last'.target].kind = "none")
        => (last'.res.kind = "ok" /\ fs' = fs)]_vars

C7_Witness ==
    /\ IsCall(last, "NodeUnpublishVolume") /\ last.again
    /\ last.before.kind = "ok" /\ last.res.kind = "ok"
    /\ last.muts = {} /\ fs[last.target].kind = "none"

C9_DeletedIsGone ==
    (IsCall(last, "DeleteVolume") /\ last.res.kind = "ok")
        => \A p \in BackingPaths :
              (p = BackingPath(last.vol) \/ IsUnder(p, BackingPath(last.vol)))
                  => fs[p].kind = "none"

C9_Witness ==
    /\ IsCall(last, "DeleteVolume") /\ last.res.kind = "ok" /\ last.vol = "v1"
    /\ <<"remove", DataFile>> \in last.muts
    /\ fs[TripTarget] = LinkTo(SourcePath("v1"))

\* C10: a NodePublishVolume of an id that is not registered, or whose backing
\* path does not exist, fails with the not-found error and changes nothing.
C10_PublishNotFound ==
    [][(/\ IsCall(last', "NodePublishVolume")
        /\ (~registry[last'.vol].present \/ fs[BackingPath(last'.vol)].kind = "none"))
        => (/\ last'.res.kind = "err" /\ last'.res.err = "source_not_exist"
            /\ fs' = fs)]_vars

\* C11: after a NodePublishVolume that returned success, whatever was at the
\* target path before (nothing, the right link, a stale link, a file, a
\* directory), the parent directory of the target exists and the target is a
\* link whose destination is exactly the backing path of the id.
C11_PublishPostcondition ==
    (IsCall(last, "NodePublishVolume") /\ last.res.kind = "ok")
        => (/\ KindOf(fs, Dir(last.target)) = "dir"
            /\ fs[Clean(last.target)] = LinkTo(SourcePath(last.vol)))

C11_Witness ==
    /\ IsCall(last, "NodePublishVolume") /\ last.res.kind = "ok"
    /\ <<"remove", Clean(last.target)>> \in last.muts
    /\ <<"symlink", Clean(last.target)>> \in last.muts
    /\ fs[Clean(last.target)] = LinkTo(SourcePath(last.vol))

\* C12: a NodeUnpublishVolume of a target path that holds a plain file or a
\* directory returns success and changes nothing: the object and whatever is
\* in it stay as they were.
C12_UnpublishNonLink ==
    [][(/\ IsCall(last', "NodeUnpublishVolume")
        /\ fs[Clean(last'.target)].kind \in {"file", "dir"})
        => (last'.res.kind = "ok" /\ fs' = fs)]_vars

C12_Witness ==
    /\ IsCall(last, "NodeUnpublishVolume") /\ last.res.kind = "ok"
    /\ last.target = Parent(ForeignFile) /\ last.muts = {}
    /\ fs[Parent(ForeignFile)] = DirNode /\ fs[ForeignFile] = FileNode

NodeOps == {"NodePublishVolume", "NodeUnpublishVolume", "NodeStageVolume", "NodeUnstageVolume"}

\* What the driver never puts at a target path: a file, a directory, a link
\* that leads out of the backing root.
IsForeign(node) == node.kind \in {"file", "dir"} \/ node = LinkTo(Elsewhere)

Returned(op) == phase = "solo" /\ procs[1].pc = "done" /\ procs[1].op = op

\* C14: a CreateVolume that returned an error has made no directory: the file
\* system is the one the call was entered with.
C14_FailedCreateLeavesNothing ==
    (Returned("CreateVolume") /\ procs[1].res.kind = "err")
        => (fs = entry /\ procs[1].muts = {})

\* C15 (as claimed): after a NodePublishVolume that failed to make the parent
\* directory, to remove the wrong target or to make the link, the target path
\* is absent or is the link to the backing path of the id.
C15_FailedPublishTarget ==
    (/\ Returned("NodePublishVolume") /\ procs[1].res.kind = "err"
     /\ procs[1].res.err \in {"create_parent_failed", "remove_target_failed", "symlink_failed"})
        => (\/ fs[Clean(procs[1].target)] = Absent
            \/ fs[Clean(procs[1].target)] = LinkTo(SourcePath(procs[1].vol)))

\* C15 (amended): after a NodePublishVolume that returned an error the target
\* path is absent, with nothing under it, or holds what it held when the call
\* was entered, contents included; the call leaves no new object there.
C15_FailedPublishKeepsOrRemoves ==
    (Returned("NodePublishVolume") /\ procs[1].res.kind = "err")
        => LET t == Clean(procs[1].target) IN
           \/ \A p \in Paths : (p = t \/ IsUnder(p, t)) => fs[p] = Absent
           \/ \A p \in Paths : (p = t \/ IsUnder(p, t)) => fs[p] = entry[p]

C15_Witness ==
    /\ Returned("NodePublishVolume") /\ procs[1].res = ErrRes("symlink_failed")
    /\ entry[Clean(procs[1].target)] = DirNode
    /\ fs[Clean(procs[1].target)] = Absent

\* C16: a DeleteVolume whose removal of the backing path failed returns an
\* error and leaves the volume registered and the file system as it was; the
\* same DeleteVolume sent again once the host is sound succeeds, and the
\* backing path with everything under it is gone.
C16_FailedDeleteRetried ==
    /\ [](Returned("DeleteVolume") /\ fs[BackingPath(procs[1].vol)].kind # "none"
            => procs[1].res.kind = "err")
    /\ [][(/\ phase = "solo" /\ procs[1].op = "DeleteVolume"
           /\ procs[1].pc # "done" /\ procs'[1].pc = "done"
           /\ procs'[1].res.kind = "err")
            => (registry' = registry /\ fs' = fs)]_vars
    /\ [](phase = "retry" /\ procs[1].op = "DeleteVolume"
            => /\ last.res.kind = "ok"
               /\ ~registry[last.vol].present
               /\ \A p \in BackingPaths :
                     (p = BackingPath(last.vol) \/ IsUnder(p, BackingPath(last.vol)))
                         => fs[p].kind = "none")

C16_Witness ==
    /\ phase = "retry" /\ procs[1].op = "DeleteVolume" /\ procs[1].vol = "v1"
    /\ procs[1].res = ErrRes("delete_dir_failed")
    /\ entry[BackingPath("v1")] = DirNode
    /\ last.res.kind = "ok" /\ <<"remove", BackingPath("v1")>> \in last.muts
    /\ fs[BackingPath("v1")] = Absent

\* A capacity range whose required bytes exceed its non-zero limit.
Inverted(range) == range.set /\ range.limit > 0 /\ range.required > range.limit

\* C17: a CreateVolume with an empty name, or with required bytes above a
\* non-zero limit, fails with the invalid-argument error and makes no
\* directory and no registry entry; a CreateVolume with zero required bytes and
\* no limit succeeds.
C17_InvalidRejected ==
    [][/\ (IsCall(last', "CreateVolume") /\ (last'.vol = "" \/ Inverted(last'.range)))
            => (/\ last'.res.kind = "err" /\ last'.res.err = "invalid_argument"
                /\ fs' = fs /\ registry' = registry)
       /\ (/\ IsCall(last', "CreateVolume") /\ last'.vol # "" /\ last'.range.set
           /\ last'.range.required = 0 /\ last'.range.limit = 0)
            => last'.res.kind = "ok"]_vars

\* C18: after a DeleteVolume that returned success no target path is a link
\* to the backing path of the deleted volume: a volume that is still published
\* is not reclaimed.
C18_NoDeleteWhileMounted ==
    (IsCall(last, "DeleteVolume") /\ last.res.kind = "ok")
        => \A t \in TargetPaths :
              ~(fs[t].kind = "link" /\ Clean(fs[t].dest) = BackingPath(last.vol))

\* C19: an RPC whose context was canceled before the handler began its work
\* returns the canceled error and changes nothing.
C19_CanceledDoesNothing ==
    (phase = "solo" /\ context = "canceled" /\ procs[1].pc = "done")
        => (/\ procs[1].res = ErrRes("canceled")
            /\ procs[1].muts = {}
            /\ fs = entry)

\* What the request of the RPC that ran call by call would have done, served
\* once on a sound host in the state the RPC was entered in.
SingleCall ==
    Run(entry, "none",
        Frame(procs[1].op, procs[1].vol, procs[1].target, procs[1].range, procs[1].params))

\* C20: when an RPC failed for a fault of the host and the same request is
\* sent again on the sound host, the retry succeeds and the file system is the
\* one a single call on a sound host would have left.
C20_BlindRetry ==
    (phase = "retry" /\ procs[1].res.err # "source_not_exist")
        => (last.res.kind = "ok" /\ fs = SingleCall.fs)

\* An RPC is between two of its file system calls.
InFlight == phase = "solo" /\ procs[1].began /\ procs[1].pc # "done"

C22_NodeCapabilitiesEmpty ==
    IsCall(last, "NodeGetCapabilities") => (last.res.kind = "ok" /\ last.res.caps = <<>>)

\* C22 (amended): NodeGetCapabilities returns, in every state, a list of one
\* entry whose RPC type is UNKNOWN; no entry is STAGE_UNSTAGE_VOLUME.
C22_NodeCapabilitiesUnknownOnly ==
    IsCall(last, "NodeGetCapabilities")
        => (/\ last.res = CapsRes(<<"UNKNOWN">>)
            /\ \A i \in 1 .. Len(last.res.caps) : last.res.caps[i] # "STAGE_UNSTAGE_VOLUME")

C22_Witness ==
    /\ IsCall(last, "NodeGetCapabilities") /\ Len(last.res.caps) = 1
    /\ InFlight /\ procs[1].op = "NodePublishVolume" /\ fault = "target_ro"

IdentityOps == {"GetPluginInfo", "GetPluginCapabilities", "Probe"}

\* C23: in every state, also under a fault and while another RPC is between
\* two of its file system calls, GetPluginInfo returns the fixed name and
\* version, GetPluginCapabilities the one capability CONTROLLER_SERVICE, Probe
\* a success that does not say "not ready"; none of them returns an error and
\* none changes the file system, the registry or the RPC in flight.
C23_IdentityStateless ==
    /\ [](IsCall(last, "GetPluginInfo")
            => last.res = [OkRes EXCEPT !.name = "hostpath.csi.k8s.io", !.version = "v1.0.0"])
    /\ [](IsCall(last, "GetPluginCapabilities")
            => last.res = CapsRes(<<"CONTROLLER_SERVICE">>))
    /\ [](IsCall(last, "Probe") => (last.res.kind = "ok" /\ last.res.ready # "false"))
    /\ [][(last' # last /\ last'.op \in IdentityOps)
            => (fs' = fs /\ registry' = registry /\ procs' = procs)]_vars

C23_Witness ==
    /\ IsCall(last, "Probe") /\ last.res.kind = "ok" /\ last.fault = "backing_io"
    /\ InFlight /\ procs[1].op = "CreateVolume"
    /\ fs[Root].kind = "none"

\* C24: NodeStageVolume and NodeUnstageVolume return success for every request
\* in every state and change nothing: not the file system, not the registry,
\* not the RPC in flight.
C24_StageIsNoOp ==
    [][(last' # last /\ last'.op \in {"NodeStageVolume", "NodeUnstageVolume"})
        => (/\ last'.res = OkRes /\ last'.muts = {}
            /\ fs' = fs /\ registry' = registry /\ procs' = procs)]_vars

C24_Witness ==
    /\ IsCall(last, "NodeStageVolume") /\ last.res = OkRes
    /\ fs[Clean(last.target)] = Absent
    /\ InFlight /\ last.fault = "target_io"

\* C25: of two RPCs in flight on different volume ids, each can make its next
\* file system call at any moment, wherever the other one stands, and that
\* call moves it on: neither waits for the other.
C25_NoContention ==
    \A i \in {1, 2} :
        (phase = "race" /\ procs[i].pc # "done" /\ procs[1].vol # procs[2].vol)
            => (/\ ENABLED RaceStep(i)
                /\ Step(fs, fault, procs[i]).loc # procs[i])

C25_Witness ==
    /\ phase = "race" /\ procs[1].vol = "v1" /\ procs[2].vol = "v2"
    /\ procs[1].op = "CreateVolume" /\ procs[2].op = "NodePublishVolume"
    /\ procs[1].began /\ procs[1].pc = "ma_mkdir"
    /\ procs[2].began /\ procs[2].pc = "np_removeall"
    /\ crossed = {}

\* C26: a CreateVolume that returned success returns the requested name as the
\* volume id, the required bytes as the capacity (0 included) and the request's
\* parameters as the volume context, and the directory it made is the one a
\* NodePublishVolume of that id links to and a DeleteVolume of that id removes.
C26_DescriptorAndPath ==
    /\ (IsCall(last, "CreateVolume") /\ last.res.kind = "ok")
        => (/\ last.res.id = last.vol
            /\ last.res.cap = last.range.required
            /\ last.res.ctx = last.params
            /\ KindOf(fs, Clean(VolumePath(last.vol))) = "dir"
            /\ Stat(fs, "none", SourcePath(last.res.id)).err = "nil")
    /\ (IsCall(last, "NodePublishVolume") /\ last.res.kind = "ok")
        => Clean(fs[Clean(last.target)].dest) = Clean(VolumePath(last.vol))
    /\ (IsCall(last, "DeleteVolume") /\ last.res.kind = "ok")
        => (/\ KindOf(fs, Clean(VolumePath(last.vol))) = "none"
            /\ \A m \in last.muts :
                  m[2] = Clean(VolumePath(last.vol)) \/ IsUnder(m[2], Clean(VolumePath(last.vol))))

C26_Witness ==
    /\ IsCall(last, "CreateVolume") /\ last.res.kind = "ok" /\ last.vol = "v1"
    /\ last.range.required = 0 /\ last.res.cap = 0
    /\ last.params # NoParams /\ last.res.ctx = last.params
    /\ <<"mkdir", Clean(VolumePath("v1"))>> \in last.muts
    /\ fs["/mnt/a"].kind = "link" /\ Clean(fs["/mnt/a"].dest) = Clean(VolumePath("v1"))

\* C27: a NodePublishVolume of an id whose DeleteVolume has returned success,
\* and that no CreateVolume of the same name has returned success for since,
\* fails and makes no link.
C27_NoPublishAfterDelete ==
    (IsCall(last, "NodePublishVolume") /\ last.vol \in deleted)
        => (last.res.kind = "err" /\ last.muts = {})

\* C28: a NodeUnpublishVolume of a target path that is a link to the backing
\* path of the id returns success and removes the link: afterwards nothing is
\* at the target path, and the backing path, what is in it and every other
\* path are as before.
C28_UnpublishRemovesLink ==
    [][(/\ IsCall(last', "NodeUnpublishVolume")
        /\ fs[Clean(last'.target)] = LinkTo(SourcePath(last'.vol)))
        => (/\ last'.res = OkRes
            /\ fs'[Clean(last'.target)] = Absent
            /\ \A p \in Paths \ {Clean(last'.target)} : fs'[p] = fs[p])]_vars

C28_Witness ==
    /\ IsCall(last, "NodeUnpublishVolume") /\ last.res = OkRes
    /\ last.vol = "v1" /\ last.muts = {<<"remove", Clean(last.target)>>}
    /\ fs[Clean(last.target)] = Absent
    /\ fs[BackingPath("v1")] = DirNode /\ fs[DataFile] = FileNode

\* C29: a volume can be published at two target paths at once, both links to
\* the same backing path; a NodePublishVolume or NodeUnpublishVolume of one
\* target path leaves what is at every other target path as it is.
C29_IndependentTargets ==
    [][(last'.op \in {"NodePublishVolume", "NodeUnpublishVolume"})
        => \A t \in TargetPaths \ {Clean(last'.target)} : fs'[t] = fs[t]]_vars

C29_Witness ==
    /\ IsCall(last, "NodeUnpublishVolume") /\ last.res = OkRes
    /\ last.vol = "v1" /\ last.target = "/mnt/a"
    /\ <<"remove", "/mnt/a">> \in last.muts
    /\ fs["/mnt/a"] = Absent
    /\ fs["/mnt/b"] = LinkTo(SourcePath("v1"))
    /\ fs[BackingPath("v1")] = DirNode

----------------------------------------------------------------------------
(* Capacity, termination, isolation and the races between handlers.        *)

\* C31: every volume descriptor CreateVolume returns carries a capacityBytes
\* that is at least 0, also when the request asks for a negative number of
\* required bytes or for a limit below the required bytes.
C31_CapacityNonNegative ==
    (IsCall(last, "CreateVolume") /\ last.res.kind = "ok") => last.res.cap >= 0

\* The scheduler of the server: a handler that can take its next step does
\* take it; neither goroutine is starved.
FairRaceSpec == RaceSpec /\ WF_vars(RaceStep(1)) /\ WF_vars(RaceStep(2))

C33_VolumesIsolated ==
    [][(last'.op \in {"CreateVolume", "DeleteVolume",
                      "NodePublishVolume", "NodeUnpublishVolume"})
        => (\A b \in VolumeIds \ {last'.vol, ""} :
                /\ fs'[BackingPath(b)] = fs[BackingPath(b)]
                /\ (b = "v1" => fs'[DataFile] = fs[DataFile]))]_vars

\* A NodePublishVolume and a DeleteVolume of the same volume id run together,
\* the publish as handler i.
PublishMeetsDelete(i) ==
    /\ phase = "race"
    /\ procs[i].op = "NodePublishVolume" /\ procs[3 - i].op = "DeleteVolume"
    /\ procs[i].vol = procs[3 - i].vol

\* C34: when a NodePublishVolume runs together with a DeleteVolume of the same
\* id and returns success, the backing path existed at the moment the link
\* was made; and the two never end both successful with the target a link to
\* a backing path that is gone.
C34_PublishDeleteRace ==
    /\ [][\A i \in {1, 2} :
            (/\ PublishMeetsDelete(i)
             /\ procs[i].pc = "np_symlink" /\ procs'[i].pc = "done"
             /\ procs'[i].res.kind = "ok")
                => fs[BackingPath(procs[i].vol)].kind = "dir"]_vars
    /\ [](\A i \in {1, 2} :
            (/\ PublishMeetsDelete(i) /\ Done(1) /\ Done(2)
             /\ procs[1].res.kind = "ok" /\ procs[2].res.kind = "ok")
                => ~(/\ fs[procs[i].target] = LinkTo(SourcePath(procs[i].vol))
                     /\ fs[BackingPath(procs[i].vol)].kind = "none"))

\* C35: two NodePublishVolume calls for the same existing volume and the same
\* target path that run together both return success, whatever was at the
\* target path before, and afterwards the target path is a link to the
\* backing path of the volume.
C35_ConcurrentPublish ==
    (/\ phase = "race" /\ Done(1) /\ Done(2)
     /\ procs[1].op = "NodePublishVolume" /\ procs[2].op = "NodePublishVolume"
     /\ procs[1].vol = procs[2].vol /\ procs[1].target = procs[2].target
     /\ fs[BackingPath(procs[1].vol)].kind = "dir")
        => (/\ procs[1].res = OkRes /\ procs[2].res = OkRes
            /\ fs[procs[1].target] = LinkTo(SourcePath(procs[1].vol)))

\* C36: a NodeUnpublishVolume removes what is at its target path only when
\* that is a link to the backing path of the volume it names; a link to the
\* backing path of another volume, or to any other place, stays.
C36_UnpublishOwnLinkOnly ==
    [][(/\ IsCall(last', "NodeUnpublishVolume")
        /\ fs[Clean(last'.target)] # LinkTo(SourcePath(last'.vol)))
        => fs'[Clean(last'.target)] = fs[Clean(last'.target)]]_vars

C38_ExistenceConfirmed ==
    [][(/\ IsCall(last', "NodePublishVolume")
        /\ Stat(fs, fault, SourcePath(last'.vol)).err # "nil")
        => (/\ last'.res.kind = "err"
            /\ fs'[Clean(last'.target)] = fs[Clean(last'.target)])]_vars

\* C39: every CreateVolume returns a response or an error, also for a request
\* that carries no capacity range; the handler never ends in a crash.
C39_CreateNeverCrashes ==
    IsCall(last, "CreateVolume") => last.res.kind \in {"ok", "err"}

----------------------------------------------------------------------------
(* The start of the process.                                               *)

\* A host on which the process has just been started.
StartupInit ==
    /\ fs = [p \in Paths |-> Absent]
    /\ fault = "none"
    /\ last = NoCall
    /\ registry = [v \in VolumeIds |-> NoEntry]
    /\ trip = 0
    /\ phase = "serial"
    /\ procs = [i \in {1, 2} |-> Idle]
    /\ crossed = {}
    /\ entry = fs
    /\ context = "live"
    /\ deleted = {}
    /\ boot \in {Starting(sock) : sock \in {"absent", "stale"}}

\* One statement of main.
MainStep ==
    /\ boot.pc \notin {"serving", "exited"}
    /\ \E ok \in BOOLEAN : boot' = MainNext(boot, ok)
    /\ UNCHANGED <<fs, fault, last, registry, trip, phase, procs, crossed, entry, context,
                   deleted>>

\* server.Serve returns an error while serving, and main ends the process.
ServeReturns ==
    /\ boot.pc = "serving"
    /\ boot' = Fatal(boot, "serve")
    /\ UNCHANGED <<fs, fault, last, registry, trip, phase, procs, crossed, entry, context,
                   deleted>>

\* The gRPC server hands a request to a handler once it serves, and only to
\* the handlers of a registered service.
Dispatched(service) == boot.pc = "serving" /\ service \in boot.registered

StartupNext ==
    \/ MainStep
    \/ ServeReturns
    \/ \E v \in RaceIds : Dispatched("Controller") /\ CreateVolume(v, OneRange, NoParams)
    \/ \E v \in RaceIds : Dispatched("Controller") /\ DeleteVolume(v)
    \/ \E v \in ServiceIds, t \in FaultTargets :
            Dispatched("Node") /\ NodePublishVolume(v, t)
    \/ \E v \in ServiceIds, t \in FaultTargets :
            Dispatched("Node") /\ NodeUnpublishVolume(v, t)
    \/ Dispatched("Identity") /\ Probe

StartupSpec == StartupInit /\ [][StartupNext]_vars

\* C40: the process removes a socket file left by an earlier run before it
\* binds the listener; the Identity, Controller and Node services are all
\* registered before it serves; and when the removal or the binding fails the
\* process ends and has served no RPC.
C40_StartupOrdering ==
    /\ [](boot.pc = "listen" => boot.socket = "absent")
    /\ [](boot.pc = "serving" => (boot.registered = Services /\ boot.socket = "bound"))
    /\ [](last # NoCall => (boot.registered = Services /\ boot.cause \notin {"remove", "listen"}))
    /\ [](boot.cause \in {"remove", "listen"} => (boot.pc = "exited" /\ last = NoCall))
    /\ [][boot.pc = "exited" => boot' = boot /\ last' = last]_vars

\* A socket file of an earlier run was there; the process removed it, bound,
\* registered the three services and has served a CreateVolume.
C40_Witness ==
    /\ boot.found = "stale"
    /\ boot.pc = "serving" /\ boot.socket = "bound" /\ boot.registered = Services
    /\ IsCall(last, "CreateVolume") /\ last.res.kind = "ok"

====
